---- MODULE Spec2Model ----
(***************************************************************************)
(* Model of src/src/storage.rs: the piece store (StorageHandler) over a    *)
(* directory <base>/.pieces and its bounded in-memory cache (Cache<T>).    *)
(*                                                                         *)
(* Six specifications share the variables:                                 *)
(*   Spec       one StorageHandler used sequentially: create, store_piece, *)
(*              retrieve_piece, with the filesystem's failures as inputs;  *)
(*   WideSpec   store_piece and retrieve_piece of a handler on a store of  *)
(*              one more piece, so that its cache evicts;                  *)
(*   CreateSpec create alone, on every filesystem it can find;             *)
(*   CacheSpec  a standalone Cache<T> driven by any put and get;           *)
(*   TestCacheSpec  the calls of tests::test_cache on a cache of capacity  *)
(*              7, with any time between them;                             *)
(*   ConcSpec   two store_piece calls on one piece directory running       *)
(*              without exclusion, a step per system call.                 *)
(***************************************************************************)
EXTENDS Integers, Sequences, FiniteSets, TLC

(* ------------------------------ bounds --------------------------------- *)

\* piece indices 0..MaxIndex (u32 in the source)
MaxIndex == 1
\* a byte is 0..MaxByte (u8 in the source)
MaxByte == 1
\* longest piece_data handed to store_piece by the sequential handler
MaxLen == 1
\* longest piece_data handed to store_piece by a concurrent writer
MaxConcLen == 2
\* the clock reads 0..MaxTime milliseconds
MaxTime == 1
\* cache_size handed to create
MaxCacheSize == 2
\* keys 0..MaxKey and capacities 0..MaxCapacity of the standalone cache
MaxKey == 3
MaxCapacity == 3

Index == 0 .. MaxIndex
Byte == 0 .. MaxByte
Key == 0 .. MaxKey
\* the items put in the standalone cache (T = i64 in tests::test_cache); the
\* cache never looks into an item
Item == {1, 4}

BytesUpTo(n) == UNION {[1 .. m -> Byte] : m \in 0 .. n}

\* what a file can hold
MaxContentLen == IF MaxLen > MaxConcLen THEN MaxLen ELSE MaxConcLen
Content == BytesUpTo(MaxContentLen)

NoKey == "none"

\* Option<T>
None == <<>>
Some(x) == <<x>>

VARIABLES
    base,        \* what is at base_path: "absent", "file" or "dir"
    baseOwner,   \* st_uid of base_path
    pieces,      \* what is at <base_path>/.pieces: "absent", "file" or "dir"
    files,       \* the files under .pieces: path -> content
    handler,     \* TRUE once create has returned a StorageHandler
    cache,       \* that handler's cache (CacheSpec: the standalone cache)
    now,         \* the system clock, in milliseconds
    lastStored,  \* history: index -> the latest store_piece that returned Ok, and after it
    last,        \* history: the latest call, its arguments and its result
    writers      \* ConcSpec: the store_piece calls in progress

vars == <<base, baseOwner, pieces, files, handler, cache, now, lastStored, last, writers>>

(* ------------------------------ Cache<T> ------------------------------- *)

Restrict(f, S) == [x \in S |-> f[x]]

\* CacheRecord::new
CacheRecord_new(key, item, timestamp) ==
    [key |-> key, item |-> item, timestamp |-> timestamp]

\* Cache::new
Cache_new(max_size) ==
    [max_size |-> max_size, records |-> <<>>]

\* records.len()
len(records) == Cardinality(DOMAIN records)

\* _calculate_timestamp: the clock's reading in milliseconds
_calculate_timestamp == now

\* to_remove_count with a fault: a quarter of the records instead of a third
to_remove_count_quarter(records) == (len(records) * 1) \div 4

\* purge: to_remove_count = len * 1 / 3
to_remove_count(records) == (len(records) * 1) \div 3

\* keys_to_remove with a fault: the records are sorted by timestamp in descending
\* order, the newest come first
RECURSIVE keys_to_remove_newest(_, _)
keys_to_remove_newest(records, n) ==
    IF n = 0 \/ DOMAIN records = {}
    THEN {<<>>}
    ELSE LET keys == DOMAIN records
             first == {k \in keys :
                         \A j \in keys : records[k].timestamp >= records[j].timestamp}
         IN  UNION {{<<records[k].key>> \o rest :
                        rest \in keys_to_remove_newest(Restrict(records, keys \ {k}), n - 1)} :
                    k \in first}

\* purge: the first n keys of the records sorted by timestamp.  The records are
\* enumerated in the HashMap's order, which is unspecified, and the sort is
\* stable: records of equal timestamp can come out in any order, so the result
\* is a set of possible key sequences.
RECURSIVE keys_to_remove(_, _)
keys_to_remove(records, n) ==
    IF n = 0 \/ DOMAIN records = {}
    THEN {<<>>}
    ELSE LET keys == DOMAIN records
             first == {k \in keys :
                         \A j \in keys : records[k].timestamp <= records[j].timestamp}
         IN  UNION {{<<records[k].key>> \o rest :
                        rest \in keys_to_remove(Restrict(records, keys \ {k}), n - 1)} :
                    k \in first}

Range(s) == {s[i] : i \in 1 .. Len(s)}

\* Cache::purge: the possible record maps after it
purge(records) ==
    {Restrict(records, DOMAIN records \ Range(removed)) :
        removed \in keys_to_remove(records, to_remove_count(records))}

\* insert with a fault: the records share one buffer, every payload becomes the
\* payload of the record inserted
insert_alias(records, key, record) ==
    [k \in DOMAIN records \cup {key} |->
        IF k = key THEN record ELSE [records[k] EXCEPT !.item = record.item]]

\* records.insert(key, record)
insert(records, key, record) ==
    [k \in DOMAIN records \cup {key} |-> IF k = key THEN record ELSE records[k]]

\* put_purges with a fault: purges only once the capacity is exceeded
put_purges_late(c) == len(c.records) > c.max_size

\* Cache::put: whether it purges
put_purges(c) == len(c.records) >= c.max_size

\* put with a fault: the record is inserted before purge runs
put_insert_first(c, key, data, ts) ==
    {[c EXCEPT !.records = kept] :
        kept \in IF put_purges(c)
                 THEN purge(insert(c.records, key, CacheRecord_new(key, data, ts)))
                 ELSE {insert(c.records, key, CacheRecord_new(key, data, ts))}}

\* Cache::put: the possible caches after it
put(c, key, data, ts) ==
    {[c EXCEPT !.records = insert(kept, key, CacheRecord_new(key, data, ts))] :
        kept \in IF put_purges(c) THEN purge(c.records) ELSE {c.records}}

\* get with a fault: a hit takes the record out of the cache
get_take(c, key, ts) ==
    IF key \notin DOMAIN c.records
    THEN [ret |-> None, cache |-> c]
    ELSE [ret |-> Some(c.records[key].item),
          cache |-> [c EXCEPT !.records = Restrict(@, DOMAIN @ \ {key})]]

\* get with a fault: a hit leaves the record's timestamp as it was
get_no_refresh(c, key, ts) ==
    IF key \notin DOMAIN c.records
    THEN [ret |-> None, cache |-> c]
    ELSE [ret |-> Some(c.records[key].item), cache |-> c]

\* Cache::get: the returned Option and the cache after it
get(c, key, ts) ==
    IF key \notin DOMAIN c.records
    THEN [ret |-> None, cache |-> c]
    ELSE [ret |-> Some(c.records[key].item),
          cache |-> [c EXCEPT !.records[key].timestamp = ts]]

(* ------------------------------ history -------------------------------- *)

\* what a create found at base_path and at <base_path>/.pieces
PreFs(b, o, p) == [base |-> b, owner |-> o, pieces |-> p]
NoPre == PreFs("-", "-", "-")

Call(op, key, res, data, purged, pre) ==
    [op |-> op, key |-> key, res |-> res, data |-> data, purged |-> purged, pre |-> pre]

NoCall == Call("none", NoKey, "Ok", None, FALSE, NoPre)

\* lastStored[i].data: the piece_data of the latest store_piece(i) that returned
\* Ok; lastStored[i].torn: the piece_data of the latest store_piece(i) after it
\* that failed in write_all, after its File::create
NeverStored == [data |-> None, torn |-> None]

(* ------------------------------ the clock ------------------------------ *)

\* time passes between two readings of the clock
Tick ==
    /\ now < MaxTime
    /\ now' = now + 1
    /\ UNCHANGED <<base, baseOwner, pieces, files, handler, cache, lastStored, last, writers>>

(* --------------------------- CacheSpec --------------------------------- *)

CacheInit ==
    /\ base = "absent"
    /\ baseOwner = "me"
    /\ pieces = "absent"
    /\ files = <<>>
    /\ handler = FALSE
    /\ cache \in {Cache_new(m) : m \in 0 .. MaxCapacity}
    /\ now = 0
    /\ lastStored = [i \in Index |-> NeverStored]
    /\ last = NoCall
    /\ writers = <<>>

CachePut ==
    \E key \in Key, data \in Item :
        /\ cache' \in put(cache, key, data, _calculate_timestamp)
        /\ last' = Call("put", key, "Ok", Some(data), put_purges(cache),
                        NoPre)
        /\ UNCHANGED <<base, baseOwner, pieces, files, handler, now, lastStored, writers>>

CacheGet ==
    \E key \in Key :
        LET r == get(cache, key, _calculate_timestamp)
        IN  /\ cache' = r.cache
            /\ last' = Call("get", key, IF r.ret = None THEN "None" ELSE "Some",
                            r.ret, FALSE, NoPre)
            /\ UNCHANGED <<base, baseOwner, pieces, files, handler, now, lastStored, writers>>

CacheNext == CachePut \/ CacheGet \/ Tick

CacheSpec == CacheInit /\ [][CacheNext]_vars

(* --------------------------- TestCacheSpec ----------------------------- *)

\* tests::test_cache: let max_size = 7
TestMaxSize == 7

\* the calls of tests::test_cache up to its put(8, 64), in its order:
\* put(1, 1), put(2, 4), put(3, 9), get(1), put(4, 16), ..., put(8, 64)
TestCalls ==
    <<[op |-> "put", key |-> 1], [op |-> "put", key |-> 2], [op |-> "put", key |-> 3],
      [op |-> "get", key |-> 1],
      [op |-> "put", key |-> 4], [op |-> "put", key |-> 5], [op |-> "put", key |-> 6],
      [op |-> "put", key |-> 7], [op |-> "put", key |-> 8]>>

\* how many of TestCalls have been made: the place of the latest call in them
TestCallsMade ==
    IF last.op = "none"
    THEN 0
    ELSE CHOOSE n \in 1 .. Len(TestCalls) :
            TestCalls[n].op = last.op /\ TestCalls[n].key = last.key

TestCacheInit ==
    /\ base = "absent"
    /\ baseOwner = "me"
    /\ pieces = "absent"
    /\ files = <<>>
    /\ handler = FALSE
    /\ cache = Cache_new(TestMaxSize)
    /\ now = 0
    /\ lastStored = [i \in Index |-> NeverStored]
    /\ last = NoCall
    /\ writers = <<>>

\* the next call of the test, when it is cache.put(key, key * key)
TestPut ==
    /\ TestCallsMade < Len(TestCalls)
    /\ LET call == TestCalls[TestCallsMade + 1]
       IN  /\ call.op = "put"
           /\ cache' \in put(cache, call.key, call.key * call.key, _calculate_timestamp)
           /\ last' = Call("put", call.key, "Ok", Some(call.key * call.key),
                           put_purges(cache), NoPre)
    /\ UNCHANGED <<base, baseOwner, pieces, files, handler, now, lastStored, writers>>

\* the next call of the test, when it is cache.get(key)
TestGet ==
    /\ TestCallsMade < Len(TestCalls)
    /\ LET call == TestCalls[TestCallsMade + 1]
           r == get(cache, call.key, _calculate_timestamp)
       IN  /\ call.op = "get"
           /\ cache' = r.cache
           /\ last' = Call("get", call.key, IF r.ret = None THEN "None" ELSE "Some",
                           r.ret, FALSE, NoPre)
    /\ UNCHANGED <<base, baseOwner, pieces, files, handler, now, lastStored, writers>>

\* a millisecond passes between two calls, by thread::sleep(sleep_time) or
\* without it; no more milliseconds pass than calls have been made
TestSleep ==
    /\ TestCallsMade < Len(TestCalls)
    /\ now < TestCallsMade
    /\ now' = now + 1
    /\ UNCHANGED <<base, baseOwner, pieces, files, handler, cache, lastStored, last, writers>>

TestCacheNext == TestPut \/ TestGet \/ TestSleep

TestCacheSpec == TestCacheInit /\ [][TestCacheNext]_vars

(* ---------------------------- filesystem ------------------------------- *)

\* libc::getuid()
getuid == "me"
Users == {"me", "other"}

\* _get_piece_path with a fault: the piece index is left out of the file name
_get_piece_path_fixed(piece_index) == <<".pieces", 0, ".piece">>

\* StorageHandler::_get_piece_path: <pieces_path>/<piece_index>.piece
_get_piece_path(piece_index) == <<".pieces", piece_index, ".piece">>

PiecePaths == {_get_piece_path(i) : i \in Index}

Zeros(n) == [i \in 1 .. n |-> 0]

\* File_create with a fault: the directory is emptied before the file is created
File_create_only(fs, path) ==
    [p \in {path} |-> <<>>]

\* File_create with a fault: opens an existing file without truncating it
File_create_keep(fs, path) ==
    [p \in DOMAIN fs \cup {path} |-> IF p \in DOMAIN fs THEN fs[p] ELSE <<>>]

\* fs::File::create: the file is created, or truncated if it exists
File_create(fs, path) ==
    [p \in DOMAIN fs \cup {path} |-> IF p = path THEN <<>> ELSE fs[p]]

\* write with a fault: the file is open in append mode, every write goes to its end
write_append(fs, path, off, buf) ==
    [fs EXCEPT ![path] = @ \o buf]

\* write(2) of buf at offset off of a file open for writing: a gap between
\* the end of the file and off reads as zero bytes
write(fs, path, off, buf) ==
    LET old == fs[path]
        head == IF Len(old) < off
                THEN old \o Zeros(off - Len(old))
                ELSE SubSeq(old, 1, off)
        tail == SubSeq(old, off + Len(buf) + 1, Len(old))
    IN  [fs EXCEPT ![path] = head \o buf \o tail]

\* _check_if_owner with a fault: any path stat can read counts as owned
_check_if_owner_any(b, o) ==
    IF b = "absent"
    THEN [res |-> "PathError", is_owner |-> FALSE]
    ELSE [res |-> "Ok", is_owner |-> TRUE]

\* _check_if_owner: stat(path), then st_uid == getuid()
_check_if_owner(b, o) ==
    IF b = "absent"
    THEN [res |-> "PathError", is_owner |-> FALSE]
    ELSE [res |-> "Ok", is_owner |-> (o = getuid)]

(* --------------------------- StorageHandler ---------------------------- *)

Created(res, b, o, p, fs) ==
    [res |-> res, base |-> b, owner |-> o, pieces |-> p, files |-> fs]

\* how DirBuilder::create can end: every directory made, none, or (recursive
\* only) the base made and .pieces not
MkdirOutcomes == {"ok", "fail", "partial"}

\* create_pieces with a fault: an existing .pieces directory is made anew, empty
create_pieces_fresh(b, o, p, fs, mkdir) ==
    IF p # "absent"
    THEN IF p # "dir"
         THEN Created("PathError", b, o, p, fs)
         ELSE Created("Ok", b, o, p, <<>>)
    ELSE IF mkdir = "ok"
         THEN Created("Ok", b, o, "dir", <<>>)
         ELSE Created("IOError", b, o, p, fs)

\* create_pieces with a fault: an existing .pieces entry is accepted without is_dir
create_pieces_unchecked(b, o, p, fs, mkdir) ==
    IF p # "absent"
    THEN Created("Ok", b, o, p, fs)
    ELSE IF mkdir = "ok"
         THEN Created("Ok", b, o, "dir", <<>>)
         ELSE Created("IOError", b, o, p, fs)

\* create, lines 49-55: the .pieces entry of an existing base owned by the user
create_pieces(b, o, p, fs, mkdir) ==
    IF p # "absent"
    THEN IF p # "dir"
         THEN Created("PathError", b, o, p, fs)
         ELSE Created("Ok", b, o, p, fs)
    ELSE IF mkdir = "ok"
         THEN Created("Ok", b, o, "dir", <<>>)
         ELSE Created("IOError", b, o, p, fs)

\* create_recursive with a fault: the base alone is made, .pieces is not
create_base_only(b, o, p, fs, mkdir) ==
    CASE mkdir = "ok" -> Created("Ok", "dir", getuid, "absent", <<>>)
      [] mkdir = "partial" -> Created("IOError", "dir", getuid, "absent", <<>>)
      [] OTHER -> Created("IOError", b, o, p, fs)

\* create_recursive with a fault: a failure to make the directories is reported as
\* PermissionError
create_recursive_denied(b, o, p, fs, mkdir) ==
    CASE mkdir = "ok" -> Created("Ok", "dir", getuid, "dir", <<>>)
      [] mkdir = "partial" -> Created("PermissionError", "dir", getuid, "absent", <<>>)
      [] OTHER -> Created("PermissionError", b, o, p, fs)

\* create, lines 57-59: DirBuilder::new().recursive(true).create(&pieces_path)
create_recursive(b, o, p, fs, mkdir) ==
    CASE mkdir = "ok" -> Created("Ok", "dir", getuid, "dir", <<>>)
      [] mkdir = "partial" -> Created("IOError", "dir", getuid, "absent", <<>>)
      [] OTHER -> Created("IOError", b, o, p, fs)

\* StorageHandler::create up to the construction of the handler: the result
\* and the filesystem after it
create(b, o, p, fs, mkdir) ==
    IF b # "absent"
    THEN IF b # "dir"
         THEN Created("PathError", b, o, p, fs)
         ELSE LET own == _check_if_owner(b, o)
              IN  IF own.res # "Ok"
                  THEN Created(own.res, b, o, p, fs)
                  ELSE IF ~own.is_owner
                       THEN Created("PermissionError", b, o, p, fs)
                       ELSE create_pieces(b, o, p, fs, mkdir)
    ELSE create_recursive(b, o, p, fs, mkdir)

\* StorageHandler::store_piece: createOk says whether File::create succeeds,
\* written how many bytes write_all writes before it fails (all: it succeeds)
store_piece(fs, piece_index, piece_data, createOk, written) ==
    LET piece_path == _get_piece_path(piece_index)
    IN  IF ~createOk
        THEN [res |-> "IOError", files |-> fs]
        ELSE [res |-> IF written = Len(piece_data) THEN "Ok" ELSE "IOError",
              files |-> write(File_create(fs, piece_path), piece_path, 0,
                              SubSeq(piece_data, 1, written))]

\* retrieve_piece with a fault: the cache record is made before the file is opened
retrieve_piece_put_first(fs, c, piece_index, readOk, ts) ==
    LET piece_path == _get_piece_path(piece_index)
    IN  IF piece_path \notin DOMAIN fs \/ ~readOk
        THEN [res |-> "IOError", ret |-> None, caches |-> put(c, piece_index, <<>>, ts)]
        ELSE [res |-> "Ok", ret |-> Some(fs[piece_path]),
              caches |-> put(c, piece_index, fs[piece_path], ts)]

\* retrieve_piece with a fault: a piece the cache holds is served from the cache
retrieve_piece_cached(fs, c, piece_index, readOk, ts) ==
    LET piece_path == _get_piece_path(piece_index)
    IN  IF piece_index \in DOMAIN c.records
        THEN [res |-> "Ok", ret |-> Some(c.records[piece_index].item), caches |-> {c}]
        ELSE IF piece_path \notin DOMAIN fs \/ ~readOk
             THEN [res |-> "IOError", ret |-> None, caches |-> {c}]
             ELSE [res |-> "Ok", ret |-> Some(fs[piece_path]),
                   caches |-> put(c, piece_index, fs[piece_path], ts)]

\* StorageHandler::retrieve_piece: readOk says whether File::open and
\* read_to_end succeed on an existing file
retrieve_piece(fs, c, piece_index, readOk, ts) ==
    LET piece_path == _get_piece_path(piece_index)
    IN  IF piece_path \notin DOMAIN fs \/ ~readOk
        THEN [res |-> "IOError", ret |-> None, caches |-> {c}]
        ELSE [res |-> "Ok", ret |-> Some(fs[piece_path]),
              caches |-> put(c, piece_index, fs[piece_path], ts)]

(* ------------------------------- Spec ---------------------------------- *)

\* the .pieces listings a run of the handler starts from
InitialFiles ==
    UNION {[S -> BytesUpTo(MaxLen)] : S \in SUBSET PiecePaths}

\* before the first call: anything at base_path and at .pieces, the listing
\* of an existing .pieces directory drawn from listings
Start(listings) ==
    /\ base \in {"absent", "file", "dir"}
    /\ baseOwner \in (IF base = "absent" THEN {getuid} ELSE Users)
    /\ pieces \in (IF base = "dir" THEN {"absent", "file", "dir"} ELSE {"absent"})
    /\ files \in (IF pieces = "dir" THEN listings ELSE {<<>>})
    /\ handler = FALSE
    /\ cache = Cache_new(0)
    /\ now = 0
    /\ lastStored = [i \in Index |-> NeverStored]
    /\ last = NoCall
    /\ writers = <<>>

Init == Start(InitialFiles)

Create ==
    \E cache_size \in 1 .. MaxCacheSize, mkdir \in MkdirOutcomes :
        LET r == create(base, baseOwner, pieces, files, mkdir)
        IN  /\ base' = r.base
            /\ baseOwner' = r.owner
            /\ pieces' = r.pieces
            /\ files' = r.files
            /\ handler' = (handler \/ r.res = "Ok")
            /\ cache' = IF r.res = "Ok" THEN Cache_new(cache_size) ELSE cache
            /\ last' = Call("create", NoKey, r.res, None, FALSE,
                            PreFs(base, baseOwner, pieces))
            /\ UNCHANGED <<now, lastStored, writers>>

StorePiece ==
    /\ handler
    /\ \E piece_index \in Index, piece_data \in BytesUpTo(MaxLen), createOk \in BOOLEAN :
         \E written \in (IF createOk THEN 0 .. Len(piece_data) ELSE {0}) :
            LET r == store_piece(files, piece_index, piece_data, createOk, written)
            IN  /\ files' = r.files
                /\ lastStored' =
                      [lastStored EXCEPT ![piece_index] =
                          IF r.res = "Ok"
                          THEN [data |-> Some(piece_data), torn |-> None]
                          ELSE IF createOk
                               THEN [@ EXCEPT !.torn = Some(piece_data)]
                               ELSE @]
                /\ last' = Call("store_piece", piece_index, r.res, None, FALSE, NoPre)
                /\ UNCHANGED <<base, baseOwner, pieces, handler, cache, now, writers>>

\* history: what a retrieve_piece(piece_index) found in the cache c, whether it
\* held a payload for piece_index other than the content of the piece file,
\* and the keys that c held and the cache after the call does not
PreCache(c, after, fs, piece_index) ==
    [stale |-> /\ piece_index \in DOMAIN c.records
               /\ _get_piece_path(piece_index) \in DOMAIN fs
               /\ c.records[piece_index].item # fs[_get_piece_path(piece_index)],
     evicted |-> DOMAIN c.records \ DOMAIN after.records]

\* retrieve_piece called with one of indices
RetrievePieceOf(indices) ==
    /\ handler
    /\ \E piece_index \in indices, readOk \in BOOLEAN :
          LET r == retrieve_piece(files, cache, piece_index, readOk, _calculate_timestamp)
          IN  /\ cache' \in r.caches
              /\ last' = Call("retrieve_piece", piece_index, r.res, r.ret,
                              r.res = "Ok" /\ put_purges(cache),
                              IF r.res = "Ok"
                              THEN PreCache(cache, cache', files, piece_index)
                              ELSE NoPre)
              /\ UNCHANGED <<base, baseOwner, pieces, files, handler, now, lastStored, writers>>

RetrievePiece == RetrievePieceOf(Index)

Next == Create \/ StorePiece \/ RetrievePiece \/ Tick

Spec == Init /\ [][Next]_vars

(* ------------------------------ WideSpec ------------------------------- *)

\* the piece indices and one more, enough records for purge to remove one
WideIndex == 0 .. MaxIndex + 1

\* a handler on a store in which the file of the one more piece exists: as in
\* tests::test_create_if_path_exists, create found it in .pieces
WideInit ==
    /\ base = "dir"
    /\ baseOwner = getuid
    /\ pieces = "dir"
    /\ files \in [{_get_piece_path(i) : i \in WideIndex \ Index} -> BytesUpTo(MaxLen)]
    /\ handler = TRUE
    /\ cache \in {Cache_new(cache_size) : cache_size \in 1 .. MaxCacheSize}
    /\ now = 0
    /\ lastStored = [i \in Index |-> NeverStored]
    /\ last = NoCall
    /\ writers = <<>>

\* store_piece on the piece indices, retrieve_piece on those and the one more,
\* all calls within one millisecond
WideNext == StorePiece \/ RetrievePieceOf(WideIndex)

WideSpec == WideInit /\ [][WideNext]_vars

(* ----------------------------- CreateSpec ------------------------------ *)

\* every .pieces listing: each piece file absent or with any content
AnyFiles ==
    UNION {[S -> Content] : S \in SUBSET PiecePaths}

CreateInit == Start(AnyFiles)

\* create alone, called again and again on whatever it finds at base_path
CreateNext == Create

CreateSpec == CreateInit /\ [][CreateNext]_vars

(* ------------------------------ ConcSpec ------------------------------- *)

\* the two store_piece calls
Writer == {"w1", "w2"}

Others(w) == Writer \ {w}

\* a call between its File::create and the return of its write_all
InProgress(w) == writers[w].pc = "writing"

ConcInit ==
    /\ base = "dir"
    /\ baseOwner = getuid
    /\ pieces = "dir"
    /\ files = <<>>
    /\ handler = TRUE
    /\ cache = Cache_new(1)
    /\ now = 0
    /\ lastStored = [i \in Index |-> NeverStored]
    /\ last = NoCall
    /\ writers \in [Writer -> [pc : {"ready"}, piece_index : Index,
                               piece_data : BytesUpTo(MaxConcLen), off : {0},
                               overlapped : {FALSE}]]

\* store_piece returns Ok once write_all has written all of piece_data
Returned(w, off) ==
    IF off = Len(writers[w].piece_data) THEN "done" ELSE "writing"

Completed(w) ==
    Call("store_piece", writers[w].piece_index, "Ok", Some(writers[w].piece_data),
         FALSE, NoPre)

\* store_piece, line 72: File::create(piece_path)
WriterCreate(w) ==
    /\ writers[w].pc = "ready"
    /\ files' = File_create(files, _get_piece_path(writers[w].piece_index))
    /\ writers' = [writers EXCEPT
                     ![w].pc = Returned(w, 0),
                     ![w].overlapped = \E o \in Others(w) : InProgress(o)]
    /\ last' = IF Returned(w, 0) = "done" THEN Completed(w) ELSE last
    /\ UNCHANGED <<base, baseOwner, pieces, handler, cache, now, lastStored>>

\* store_piece, line 73: one write(2) of write_all's loop; it writes n >= 1 of
\* the bytes that are left, at the offset of this call's own file description
WriterWrite(w) ==
    /\ writers[w].pc = "writing"
    /\ \E n \in 1 .. (Len(writers[w].piece_data) - writers[w].off) :
          LET off == writers[w].off
              buf == SubSeq(writers[w].piece_data, off + 1, off + n)
          IN  /\ files' = write(files, _get_piece_path(writers[w].piece_index), off, buf)
              /\ writers' = [writers EXCEPT ![w].off = off + n,
                                            ![w].pc = Returned(w, off + n)]
              /\ last' = IF Returned(w, off + n) = "done" THEN Completed(w) ELSE last
    /\ UNCHANGED <<base, baseOwner, pieces, handler, cache, now, lastStored>>

ConcNext == \E w \in Writer : WriterCreate(w) \/ WriterWrite(w)

ConcSpec == ConcInit /\ [][ConcNext]_vars

(* ============================== claims ================================= *)

StoredPath(i) == _get_piece_path(i)

RetrievedOk == last.op = "retrieve_piece" /\ last.res = "Ok"

IsPrefix(a, b) == Len(a) <= Len(b) /\ a = SubSeq(b, 1, Len(a))

\* C1 (as stated): a successful retrieve_piece(i) returns the bytes of the
\* most recent successful store_piece(i, B), whatever happened in between.
C1_RoundTripOriginal ==
    (RetrievedOk /\ lastStored[last.key].data # None)
        => last.data = lastStored[last.key].data

\* C1 (amended): a successful retrieve_piece(i) returns the bytes B of the most
\* recent successful store_piece(i, B) when no later store_piece(i, B') failed
\* in its write; after such a failure the file was already truncated and the
\* retrieve returns the bytes that call wrote, a proper prefix of B'.
C1_RoundTrip ==
    (RetrievedOk /\ lastStored[last.key].data # None)
        => IF lastStored[last.key].torn = None
           THEN last.data = lastStored[last.key].data
           ELSE /\ IsPrefix(last.data[1], lastStored[last.key].torn[1])
                /\ last.data # lastStored[last.key].torn

\* a retrieve returns a non-empty piece that overwrote an earlier one's file,
\* while another index holds a different stored piece
C1_Witness ==
    /\ RetrievedOk
    /\ lastStored[last.key].data # None
    /\ lastStored[last.key].torn = None
    /\ last.data = lastStored[last.key].data
    /\ Len(last.data[1]) > 0
    /\ \E j \in Index \ {last.key} :
          /\ lastStored[j].data # None
          /\ lastStored[j].data # last.data

\* C2: with max_size >= 3 the cache never holds more than max_size records,
\* in particular right after a put.
C2_CacheBound ==
    cache.max_size >= 3 => len(cache.records) <= cache.max_size

\* a put found the cache full, purged, and left it full again
C2_Witness ==
    /\ last.op = "put"
    /\ cache.max_size >= 3
    /\ last.purged
    /\ len(cache.records) = cache.max_size

WellFormed(pre) == pre = PreFs("dir", getuid, "dir")

\* C4: a create that finds the base a directory of the current user with a
\* .pieces directory returns Ok and leaves every piece file as it was.
C4_IdempotentCreate ==
    [][(last'.op = "create" /\ WellFormed(last'.pre))
          => (last'.res = "Ok" /\ handler' /\ files' = files)]_vars

\* a create found piece files that are not empty, and they are still there
C4_Witness ==
    /\ last.op = "create"
    /\ WellFormed(last.pre)
    /\ last.res = "Ok"
    /\ handler
    /\ DOMAIN files = PiecePaths
    /\ \A path \in PiecePaths : Len(files[path]) > 0

\* C5: a create that finds the base a directory of another user fails with
\* PermissionError, whatever is at .pieces, and makes no directory.
C5_OwnershipRejection ==
    (last.op = "create" /\ last.pre.base = "dir" /\ last.pre.owner # getuid)
        => /\ last.res = "PermissionError"
           /\ ~handler
           /\ base = last.pre.base
           /\ baseOwner = last.pre.owner
           /\ pieces = last.pre.pieces

\* the rejected base had no .pieces entry, and still has none
C5_Witness ==
    /\ last.op = "create"
    /\ last.pre = PreFs("dir", "other", "absent")
    /\ last.res = "PermissionError"
    /\ pieces = "absent"

Malformed(pre) ==
    \/ pre.base = "file"
    \/ pre.base = "dir" /\ pre.owner = getuid /\ pre.pieces = "file"

\* C6: a create that finds the base a regular file, or the base a directory of
\* the current user with a regular file at .pieces, fails with PathError,
\* returns no store and leaves the filesystem as it was.
C6_StructuralRejection ==
    [][(last'.op = "create" /\ Malformed(last'.pre))
          => /\ last'.res = "PathError"
             /\ ~handler'
             /\ UNCHANGED <<base, baseOwner, pieces, files>>]_vars

\* the .pieces entry of an owned base is a regular file
C6_Witness ==
    /\ last.op = "create"
    /\ last.pre = PreFs("dir", getuid, "file")
    /\ last.res = "PathError"
    /\ pieces = "file"

\* the base is a regular file
C6_WitnessBaseFile ==
    /\ last.op = "create"
    /\ last.pre.base = "file"
    /\ last.res = "PathError"

\* C7: a retrieve_piece(i) that finds no file <i>.piece fails with IOError and
\* leaves the cache as it was.
C7_MissingPiece ==
    [][(last'.op = "retrieve_piece" /\ StoredPath(last'.key) \notin DOMAIN files)
          => (last'.res = "IOError" /\ last'.data = None /\ cache' = cache)]_vars

\* the failed retrieve found a full cache, which a put would have purged
C7_Witness ==
    /\ last.op = "retrieve_piece"
    /\ last.res = "IOError"
    /\ StoredPath(last.key) \notin DOMAIN files
    /\ lastStored[last.key].data = None
    /\ cache.records # <<>>
    /\ len(cache.records) >= cache.max_size

\* C8: when create returns a store, the base and .pieces are directories and
\* the store's cache is empty; when the base did not exist, .pieces is empty
\* and the base belongs to the current user.
C8_CreatePostcondition ==
    (last.op = "create" /\ last.res = "Ok")
        => /\ handler
           /\ base = "dir"
           /\ pieces = "dir"
           /\ cache.records = <<>>
           /\ (last.pre.base = "absent" => (files = <<>> /\ baseOwner = getuid))

\* a create made both directories
C8_Witness ==
    /\ last.op = "create"
    /\ last.res = "Ok"
    /\ last.pre.base = "absent"
    /\ base = "dir"
    /\ pieces = "dir"

\* C9: a create that finds no base returns Ok or IOError, never PathError or
\* PermissionError, and returns Ok exactly when both directories were made.
C9_NoBase ==
    (last.op = "create" /\ last.pre.base = "absent")
        => /\ last.res \in {"Ok", "IOError"}
           /\ (last.res = "Ok") = (base = "dir" /\ pieces = "dir")

\* the directories could not be made
C9_Witness ==
    /\ last.op = "create"
    /\ last.pre.base = "absent"
    /\ last.res = "IOError"
    /\ base = "absent"

AllDone == \A w \in Writer : writers[w].pc = "done"

SameIndex == \A w, o \in Writer : writers[w].piece_index = writers[o].piece_index

ConcFile == files[_get_piece_path(writers["w1"].piece_index)]

\* C10 (as stated): after two interleaved store_piece calls on one index the
\* file holds exactly the bytes of one of the two.
C10_LastWriterWinsOriginal ==
    (AllDone /\ SameIndex)
        => \E w \in Writer : ConcFile = writers[w].piece_data

NoOverlap == \A w \in Writer : ~writers[w].overlapped

\* C10 (amended): after two store_piece calls on one index the file holds
\* exactly the bytes of the later call when the calls do not overlap (one
\* returns before the other's File::create); when they overlap it can be a
\* mixture, in which every byte is a byte of one of the two at that place or a
\* zero filling a gap, and no longer than the longer of the two.
C10_LastWriterWins ==
    (AllDone /\ SameIndex)
        => /\ NoOverlap => ConcFile = last.data[1]
           /\ \A p \in 1 .. Len(ConcFile) :
                 \/ ConcFile[p] = 0
                 \/ \E w \in Writer :
                       /\ p <= Len(writers[w].piece_data)
                       /\ ConcFile[p] = writers[w].piece_data[p]
           /\ \E w \in Writer : Len(ConcFile) <= Len(writers[w].piece_data)

\* two calls with different bytes, one after the other: the later one's bytes
C10_Witness ==
    /\ AllDone
    /\ SameIndex
    /\ NoOverlap
    /\ writers["w1"].piece_data # writers["w2"].piece_data
    /\ Len(writers["w1"].piece_data) > Len(writers["w2"].piece_data)
    /\ Len(writers["w2"].piece_data) > 0
    /\ last.data = Some(writers["w2"].piece_data)
    /\ ConcFile = writers["w2"].piece_data

\* a step of Cache::put on the standalone cache: the clock stands still and the
\* latest call is a put
PutStep == last'.op = "put" /\ now' = now

\* C11: a put that runs purge on s records removes exactly s \div 3 of them and
\* leaves every other record as it was; every removed record has a timestamp
\* less than or equal to that of every record purge keeps; when the key put is
\* new and s >= 3, s - s \div 3 + 1 records are left.  (The key put can be one
\* of the removed records: it is then inserted again.)
C11_EvictionSelection ==
    [][PutStep /\ last'.purged =>
          LET pre == cache.records
              post == cache'.records
              k == last'.key
              s == len(pre)
          IN  /\ \E removed \in SUBSET DOMAIN pre :
                    /\ Cardinality(removed) = s \div 3
                    /\ \A r \in removed, j \in DOMAIN pre \ removed :
                          pre[r].timestamp <= pre[j].timestamp
                    /\ DOMAIN post = (DOMAIN pre \ removed) \cup {k}
                    /\ \A j \in DOMAIN pre \ (removed \cup {k}) : post[j] = pre[j]
              /\ (k \notin DOMAIN pre /\ s >= 3 => len(post) = s - s \div 3 + 1)]_vars

\* a put on a full cache of three records, one of them older than the record
\* put, has run purge and left three records
C11_Witness ==
    /\ last.op = "put"
    /\ last.purged
    /\ cache.max_size = 3
    /\ len(cache.records) = 3
    /\ cache.records[last.key].timestamp = 1
    /\ \E j \in DOMAIN cache.records : cache.records[j].timestamp = 0

\* the call of TestCalls that touched key last before the put of key 8
TouchedAt(key) ==
    CHOOSE n \in 1 .. Len(TestCalls) - 1 :
        /\ TestCalls[n].key = key
        /\ \A o \in n + 1 .. Len(TestCalls) - 1 : TestCalls[o].key # key

\* C12 as stated: a key touched (by put or by a get hit) strictly later than
\* at least size \div 3 other keys is never evicted, so the put of key 8 on
\* the seven records of keys 1..7, key 1 touched again by get, always leaves
\* keys 1, 4, 5, 6, 7 and 8
C12_RecencyOriginal ==
    last.op = "put" /\ last.key = 8 =>
        /\ \A k \in 1 .. 7 :
              Cardinality({j \in (1 .. 7) \ {k} : TouchedAt(j) < TouchedAt(k)})
                  >= TestMaxSize \div 3
              => k \in DOMAIN cache.records
        /\ 8 \in DOMAIN cache.records

\* a put or a get hit: the clock stands still and the latest call is one
TouchStep ==
    /\ now' = now
    /\ last'.op = "put" \/ (last'.op = "get" /\ last'.res = "Some")

\* C12, amended: a put and a get hit set the timestamp of their key to the
\* millisecond of the call; when a put evicts, a key whose timestamp
\* is strictly greater than the timestamps of at
\* least size \div 3 other keys is not evicted; when keys 2 and 3 have
\* timestamps below those of keys 1, 4, 5, 6 and 7, the put of key 8 leaves
\* exactly the keys 1, 4, 5, 6, 7 and 8
C12_Recency ==
    [][/\ TouchStep => cache'.records[last'.key].timestamp = now
       /\ PutStep /\ last'.purged =>
          LET pre == cache.records
              post == cache'.records
          IN  /\ \A k \in DOMAIN pre :
                    Cardinality({j \in DOMAIN pre \ {k} :
                                    pre[j].timestamp < pre[k].timestamp})
                        >= len(pre) \div 3
                    => k \in DOMAIN post
              /\ (/\ last'.key = 8
                  /\ DOMAIN pre = 1 .. 7
                  /\ \A j \in {2, 3}, k \in {1, 4, 5, 6, 7} :
                        pre[j].timestamp < pre[k].timestamp)
                 => DOMAIN post = {1, 4, 5, 6, 7, 8}]_vars

\* the run of the test: every put at a later millisecond than the one before,
\* key 1 touched by get at millisecond 3, keys 2 and 3 evicted by the put of 8
C12_Witness ==
    /\ last.op = "put"
    /\ last.key = 8
    /\ last.purged
    /\ DOMAIN cache.records = {1, 4, 5, 6, 7, 8}
    /\ cache.records[1].timestamp = 3
    /\ \A k \in 4 .. 7 : /\ cache.records[k].timestamp >= 3
                          /\ cache.records[k].timestamp < cache.records[k + 1].timestamp

\* a step of Cache::get on the standalone cache
GetStep == last'.op = "get" /\ now' = now

\* C13: a put runs purge exactly when the cache holds max_size records or more
\* as it is called, whether its key is present or not; a put that does not
\* purge removes no record and changes no other record; a put that purges
\* s records leaves s - s \div 3 of them, or one more (its key was new, or was
\* removed and inserted again); a get removes no record
C13_EvictionTrigger ==
    [][/\ PutStep =>
            LET pre == cache.records
                post == cache'.records
                k == last'.key
                s == len(pre)
            IN  /\ last'.purged = (s >= cache.max_size)
                /\ ~last'.purged =>
                      /\ DOMAIN post = DOMAIN pre \cup {k}
                      /\ \A j \in DOMAIN pre \ {k} : post[j] = pre[j]
                /\ last'.purged =>
                      /\ len(post) <= s - s \div 3 + 1
                      /\ len(post) >= s - s \div 3
                      /\ Cardinality(DOMAIN pre \ DOMAIN post) >= s \div 3 - 1
       /\ GetStep => DOMAIN cache'.records = DOMAIN cache.records]_vars

\* a put of a key already present in a full cache of three records has run
\* purge, which removed another record: two records are left
C13_Witness ==
    /\ last.op = "put"
    /\ last.purged
    /\ cache.max_size = 3
    /\ len(cache.records) = 2

\* C14: a retrieve_piece(i) that returns Ok returns the content of <i>.piece
\* as it is on disk at the call, whatever payload the cache held for i, and
\* the cache then holds a record for i with the returned bytes as its payload
C14_NeverFromCache ==
    [][last'.op = "retrieve_piece" /\ last'.res = "Ok" /\ now' = now =>
          LET i == last'.key
          IN  /\ StoredPath(i) \in DOMAIN files
              /\ files' = files
              /\ last'.data = Some(files[StoredPath(i)])
              /\ i \in DOMAIN cache'.records
              /\ Some(cache'.records[i].item) = last'.data]_vars

\* the cache held a stale payload for the piece: the retrieve returned the
\* file's content, which the cache now holds
C14_Witness ==
    /\ RetrievedOk
    /\ last.pre.stale
    /\ last.data = Some(files[StoredPath(last.key)])
    /\ cache.records[last.key].item = files[StoredPath(last.key)]
    /\ files[StoredPath(last.key)] # <<>>

\* C15: a store_piece(i, B), returning Ok or an error, leaves the cache as it
\* was, the record for i included, and leaves the piece file of every other
\* index as it was, present or absent
C15_StoreFrame ==
    [][last'.op = "store_piece" /\ now' = now =>
          /\ cache' = cache
          /\ \A j \in Index \ {last'.key} :
                /\ StoredPath(j) \in DOMAIN files' <=> StoredPath(j) \in DOMAIN files
                /\ StoredPath(j) \in DOMAIN files =>
                      files'[StoredPath(j)] = files[StoredPath(j)]]_vars

\* a store_piece(i, B) that failed after truncating <i>.piece: the cache still
\* holds the earlier payload of i and a record of another index, whose file
\* has its bytes
C15_Witness ==
    /\ last.op = "store_piece"
    /\ last.res = "IOError"
    /\ last.key \in DOMAIN cache.records
    /\ files[StoredPath(last.key)] = <<>>
    /\ cache.records[last.key].item # <<>>
    /\ \E j \in Index \ {last.key} :
          /\ j \in DOMAIN cache.records
          /\ StoredPath(j) \in DOMAIN files
          /\ files[StoredPath(j)] # <<>>

\* C16: a get of a key the cache does not hold returns None and leaves the
\* cache as it was; a get of a key it holds returns the payload of the record
\* and sets the record's timestamp to the clock's reading, changing nothing
\* else: not its payload, not the keys, not another record, not max_size
C16_GetFrame ==
    [][GetStep =>
          LET k == last'.key
          IN  IF k \notin DOMAIN cache.records
              THEN /\ last'.res = "None"
                   /\ last'.data = None
                   /\ cache' = cache
              ELSE /\ last'.res = "Some"
                   /\ last'.data = Some(cache.records[k].item)
                   /\ cache'.max_size = cache.max_size
                   /\ DOMAIN cache'.records = DOMAIN cache.records
                   /\ cache'.records[k] = [cache.records[k] EXCEPT !.timestamp = now]
                   /\ \A j \in DOMAIN cache.records \ {k} :
                         cache'.records[j] = cache.records[j]]_vars

\* a get hit at millisecond 1 on a record among others put at millisecond 0
C16_Witness ==
    /\ last.op = "get"
    /\ last.res = "Some"
    /\ last.data = Some(cache.records[last.key].item)
    /\ cache.records[last.key].timestamp = 1
    /\ len(cache.records) >= 2
    /\ \A j \in DOMAIN cache.records \ {last.key} : cache.records[j].timestamp = 0

\* C17: right after put(k, v), whatever max_size and whatever the cache held,
\* the cache holds a record for k with payload v; a get(k) that follows the
\* put returns v
C17_PutKept ==
    [][/\ PutStep =>
            /\ last'.key \in DOMAIN cache'.records
            /\ Some(cache'.records[last'.key].item) = last'.data
            /\ cache'.records[last'.key].key = last'.key
       /\ (GetStep /\ last.op = "put" /\ last'.key = last.key) =>
            /\ last'.res = "Some"
            /\ last'.data = last.data]_vars

\* a cache of max_size 0 purges on every put; its three records all have the
\* timestamp of the put, whose record was not a candidate for the purge
C17_Witness ==
    /\ last.op = "put"
    /\ last.purged
    /\ cache.max_size = 0
    /\ len(cache.records) = 3
    /\ \A j \in DOMAIN cache.records : cache.records[j].timestamp = now
    /\ Some(cache.records[last.key].item) = last.data

\* C18: two store_piece calls on different indices, their system calls
\* interleaved in any order: each piece file holds at every moment the bytes
\* its own call has written so far, and once both calls have returned
\* <i>.piece holds exactly B1 and <j>.piece holds exactly B2
C18_DifferentIndices ==
    ~SameIndex =>
        \A w \in Writer :
            LET path == <<".pieces", writers[w].piece_index, ".piece">>
            IN  /\ writers[w].pc = "ready" => path \notin DOMAIN files
                /\ writers[w].pc # "ready" =>
                      /\ path \in DOMAIN files
                      /\ files[path] = SubSeq(writers[w].piece_data, 1, writers[w].off)
                /\ writers[w].pc = "done" => files[path] = writers[w].piece_data

\* both calls have returned, the second began while the first was writing;
\* the two files hold the two calls' different bytes
C18_Witness ==
    /\ AllDone
    /\ ~SameIndex
    /\ \E w \in Writer : writers[w].overlapped
    /\ \A w \in Writer :
          /\ Len(writers[w].piece_data) = 2
          /\ files[<<".pieces", writers[w].piece_index, ".piece">>] = writers[w].piece_data
    /\ writers["w1"].piece_data # writers["w2"].piece_data

====
